---- MODULE Spec2Model ----
(***************************************************************************)
(* The Nannyfy ButterCMS bridge (src/app.py): a credential-injecting       *)
(* proxy for /v2/... and an HTML renderer for /blog.                       *)
(*                                                                         *)
(* Python strings on which the code does string work (lower(), lstrip(),   *)
(* "in", int(), slicing, concatenation) are sequences of one-character     *)
(* strings.  Bodies are sequences of byte values, decoded text is a        *)
(* sequence of code points.  A dict is the sequence of its entries in      *)
(* insertion order.                                                        *)
(***************************************************************************)
EXTENDS Integers, Sequences, FiniteSets, TLC

VARIABLES BUTTER_API_TOKEN, request, sent, upstream, injected, reply

vars == <<BUTTER_API_TOKEN, request, sent, upstream, injected, reply>>

(* ------------------------------ bounds --------------------------------- *)

\* longest list of client query parameters
MaxParams == 2

\* longest path handed to _proxy_get by a direct call
MaxPath == 3

(* --------------------------- string helpers ---------------------------- *)

UpperAlpha == <<"A","B","C","D","E","F","G","H","I","J","K","L","M","N","O","P","Q","R","S","T","U","V","W","X","Y","Z">>

LowerAlpha == <<"a","b","c","d","e","f","g","h","i","j","k","l","m","n","o","p","q","r","s","t","u","v","w","x","y","z">>

\* str.lower() on one character
LowerTable ==
    [c \in {UpperAlpha[i] : i \in 1..Len(UpperAlpha)} |->
        LowerAlpha[CHOOSE i \in 1..Len(UpperAlpha) : UpperAlpha[i] = c]]

LowerChar(c) == IF c \in DOMAIN LowerTable THEN LowerTable[c] ELSE c

\* str.lower()
Lower(s) == [i \in 1..Len(s) |-> LowerChar(s[i])]

\* needle in hay
Contains(needle, hay) ==
    LET h == hay
    IN  \E i \in 1..(Len(h) - Len(needle) + 1) :
            SubSeq(h, i, i + Len(needle) - 1) = needle

\* str.lstrip("/")
RECURSIVE LStrip(_)
LStrip(s) == IF s # <<>> /\ Head(s) = "/" THEN LStrip(Tail(s)) ELSE s

\* str.rstrip("/")
RECURSIVE RStrip(_)
RStrip(s) ==
    IF s # <<>> /\ s[Len(s)] = "/" THEN RStrip(SubSeq(s, 1, Len(s) - 1)) ELSE s

\* s[:n]
Take(s, n) == SubSeq(s, 1, IF Len(s) < n THEN Len(s) ELSE n)

Digits == <<"0","1","2","3","4","5","6","7","8","9">>

IsDigit(c) == \E i \in 1..Len(Digits) : Digits[i] = c

DigitValue(c) == (CHOOSE i \in 1..Len(Digits) : Digits[i] = c) - 1

RECURSIVE DigitsValue(_)
DigitsValue(s) ==
    IF s = <<>> THEN 0
    ELSE DigitsValue(SubSeq(s, 1, Len(s) - 1)) * 10 + DigitValue(s[Len(s)])

\* int(s): an optional sign and at least one decimal digit, else ValueError
ParseInt(s) ==
    LET signed == s # <<>> /\ Head(s) \in {"+", "-"}
        body   == IF signed THEN Tail(s) ELSE s
    IN  IF body # <<>> /\ \A i \in 1..Len(body) : IsDigit(body[i])
        THEN [ok |-> TRUE,
              value |-> IF signed /\ Head(s) = "-" THEN 0 - DigitsValue(body)
                        ELSE DigitsValue(body)]
        ELSE [ok |-> FALSE]

(* ------------------------------ config --------------------------------- *)

\* values of the environment variable BUTTER_API_TOKEN
Tokens == {<<"t","o","k","A">>, <<"t","o","k","B">>}

BUTTER_V2 == <<"/", "v", "2">>

UPSTREAM_CACHE_HEADERS == {"cache-control", "etag", "last-modified", "expires"}

auth_token == <<"a","u","t","h","_","t","o","k","e","n">>

(* --------------------------- sample strings ---------------------------- *)

key_Auth_Token == <<"A","u","t","h","_","T","o","k","e","n">>
key_slug == <<"s","l","u","g">>
key_Slug == <<"S","l","u","g">>
key_page == <<"p","a","g","e">>
key_page_size == <<"p","a","g","e","_","s","i","z","e">>

application_json == <<"a","p","p","l","i","c","a","t","i","o","n","/","j","s","o","n">>
text_plain == <<"t","e","x","t","/","p","l","a","i","n">>
text_slash == <<"t","e","x","t","/">>
charset_eq == <<"c","h","a","r","s","e","t","=">>
charset_utf8_suffix == <<";"," ","c","h","a","r","s","e","t","=","u","t","f","-","8">>
charset_latin1 == <<"c","h","a","r","s","e","t","=","i","s","o","-","8","8","5","9","-","1">>

\* upstream content-type values
ct_json == application_json
ct_json_mixed_case == <<"A","p","p","l","i","c","a","t","i","o","n","/","J","S","O","N",";"," ","c","h","a","r","s","e","t","=","u","t","f","-","8">>
ct_html_latin1 == <<"t","e","x","t","/","h","t","m","l",";"," ","c","h","a","r","s","e","t","=","i","s","o","-","8","8","5","9","-","1">>
text_html == <<"t","e","x","t","/","h","t","m","l">>
PUBLISHED == <<"2","0","2","4","-","0","1","-","1","5","T","1","0",":","0","0">>
ct_png == <<"i","m","a","g","e","/","p","n","g">>

posts == <<"p","o","s","t","s">>
pages == <<"p","a","g","e","s">>

\* path parameters match [^/]+ : non-empty, no slash
Slugs == {<<"h","i">>}
PageTypes == {<<"f","a","q">>}

(* ------------------------------ inputs --------------------------------- *)

BoundedSeq(S, n) == UNION {[1..k -> S] : k \in 0..n}

\* items of request.query_params.multi_items() sent to the /v2 routes
ProxyQueryItems ==
    { <<auth_token, <<"x">> >>, <<key_Auth_Token, <<"x">> >>,
      <<key_slug, <<"a">> >>, <<key_slug, <<"b">> >>, <<key_Slug, <<"a">> >> }

ProxyQueries == BoundedSeq(ProxyQueryItems, MaxParams)

Statuses == {200, 404, 500}

\* upstream bodies: "", "A", UTF-8 for U+00E9, a lone lead byte
Bodies == {<<>>, <<65>>, <<195, 169>>, <<195>>}

ContentTypes == {ct_json, ct_json_mixed_case, ct_html_latin1, ct_png}

EmptyHeaders == [h \in {} |-> <<>>]

\* upstream headers other than content-type
OtherHeaderSamples ==
    { EmptyHeaders,
      ("cache-control" :> <<"max-age=60">> @@ "etag" :> <<"W/1">>
         @@ "last-modified" :> <<"Mon">> @@ "expires" :> <<"Tue">>
         @@ "set-cookie" :> <<"sid=1">>) }

UpstreamHeaders ==
    OtherHeaderSamples \cup
    { ("content-type" :> ct) @@ o : ct \in ContentTypes, o \in OtherHeaderSamples }

\* what the upstream API may answer to a proxied GET
ProxyUpstream ==
    [status_code : Statuses, headers : UpstreamHeaders, content : Bodies]

(* ----------------------- _merge_query_params --------------------------- *)

\* k.lower() == "auth_token"
KeyIsAuthTokenExact(k) == k = auth_token

KeyIsAuthToken(k) == Lower(k) = auth_token

HasKey(merged, k) == \E i \in 1..Len(merged) : merged[i].key = k

IndexOf(merged, k) == CHOOSE i \in 1..Len(merged) : merged[i].key = k

SetDefaultOverwrite(merged, k, v) ==
    IF HasKey(merged, k)
    THEN [merged EXCEPT ![IndexOf(merged, k)].values = <<v>>]
    ELSE Append(merged, [key |-> k, values |-> <<v>>])

\* merged.setdefault(k, []).append(v)
SetDefaultAppend(merged, k, v) ==
    IF HasKey(merged, k)
    THEN [merged EXCEPT ![IndexOf(merged, k)].values = Append(@, v)]
    ELSE Append(merged, [key |-> k, values |-> <<v>>])

\* merged[k] = vals
DictSet(merged, k, vals) ==
    IF HasKey(merged, k)
    THEN [merged EXCEPT ![IndexOf(merged, k)].values = vals]
    ELSE Append(merged, [key |-> k, values |-> vals])

\* the for loop over original; an item is <<k, v>>
RECURSIVE MergeLoop(_, _)
MergeLoop(merged, original) ==
    IF original = <<>> THEN merged
    ELSE LET k == Head(original)[1]
             v == Head(original)[2]
         IN  IF KeyIsAuthToken(k)
             THEN MergeLoop(merged, Tail(original))
             ELSE MergeLoop(SetDefaultAppend(merged, k, v), Tail(original))

_merge_query_params(token, original) ==
    DictSet(MergeLoop(<<>>, original), auth_token, <<token>>)

(* ------------------------------ skeleton ------------------------------- *)

NoRequest == [route |-> "none"]
NoSent == [url |-> <<>>]
NoUpstream == [status_code |-> 0]
NoInjected == [set |-> FALSE]
NoReply == [cls |-> "none"]

Init ==
    /\ BUTTER_API_TOKEN \in Tokens
    /\ request = NoRequest
    /\ sent = NoSent
    /\ upstream = NoUpstream
    /\ injected = NoInjected
    /\ reply = NoReply

(* ---------------------- text decoding and encoding --------------------- *)

REPLACEMENT == <<65533>>

\* bytes.decode("utf-8", errors="replace") for one- and two-byte sequences
RECURSIVE DecodeUtf8(_)
DecodeUtf8(b) ==
    IF b = <<>> THEN <<>>
    ELSE IF Head(b) < 128 THEN <<Head(b)>> \o DecodeUtf8(Tail(b))
    ELSE IF Head(b) \in 194..223 /\ Len(b) >= 2 /\ b[2] \in 128..191
         THEN <<(Head(b) - 192) * 64 + (b[2] - 128)>> \o DecodeUtf8(Tail(Tail(b)))
    ELSE REPLACEMENT \o DecodeUtf8(Tail(b))

\* bytes.decode("iso-8859-1"): every byte is its own code point
DecodeLatin1(b) == b

\* str.encode("utf-8")
RECURSIVE EncodeUtf8(_)
EncodeUtf8(s) ==
    IF s = <<>> THEN <<>>
    ELSE LET c == Head(s)
         IN  (IF c < 128 THEN <<c>>
              ELSE IF c < 2048 THEN <<192 + (c \div 64), 128 + (c % 64)>>
              ELSE <<224 + (c \div 4096), 128 + ((c \div 64) % 64), 128 + (c % 64)>>)
             \o EncodeUtf8(Tail(s))

\* headers.get(name, default)
HeaderGet(headers, name, default) ==
    IF name \in DOMAIN headers THEN headers[name] ELSE default

\* upstream.encoding: the charset of the content-type, else utf-8
UpstreamEncoding(headers) ==
    IF Contains(charset_latin1, Lower(HeaderGet(headers, "content-type", <<>>)))
    THEN "iso-8859-1" ELSE "utf-8"

\* upstream.text
UpstreamText(up) ==
    IF UpstreamEncoding(up.headers) = "iso-8859-1"
    THEN DecodeLatin1(up.content) ELSE DecodeUtf8(up.content)

(* ------------------------------ responses ------------------------------ *)

StartsWith(s, prefix) == Len(s) >= Len(prefix) /\ SubSeq(s, 1, Len(prefix)) = prefix

\* the Content-Type header a Response derives from media_type
ContentTypeHeader(media_type) ==
    IF StartsWith(media_type, text_slash) /\ ~Contains(charset_eq, Lower(media_type))
    THEN media_type \o charset_utf8_suffix ELSE media_type

\* Response.render: bytes as they are, str encoded as utf-8
Render(content) ==
    IF content.type = "bytes" THEN content.data ELSE EncodeUtf8(content.data)

\* Response(content=..., media_type=..., status_code=...)
Response(content, media_type, status_code) ==
    [cls |-> "Response", status_code |-> status_code, media_type |-> media_type,
     headers |-> ("content-type" :> ContentTypeHeader(media_type)),
     content |-> content, body |-> Render(content)]

(* ------------------------- _copy_cache_headers ------------------------- *)

\* the headers the loop copies
CopiedHeaders(upstream_headers) == UPSTREAM_CACHE_HEADERS \cap DOMAIN upstream_headers

\* returns response.headers after the loop
_copy_cache_headers(upstream_headers, response_headers) ==
    [h \in DOMAIN response_headers \cup CopiedHeaders(upstream_headers) |->
        IF h \in CopiedHeaders(upstream_headers) THEN upstream_headers[h]
        ELSE response_headers[h]]

(* ------------------------------ _proxy_get ----------------------------- *)

NormalizeNoRStrip(path) == Append(LStrip(path), "/")

\* path.lstrip("/").rstrip("/") + "/"
Normalize(path) == Append(RStrip(LStrip(path)), "/")

IsJsonCaseSensitive(ctype) == Contains(application_json, ctype)

\* "application/json" in ctype.lower()
IsJson(ctype) == Contains(application_json, Lower(ctype))

\* ctype or "text/plain"
MediaTypeOrPlain(ctype) == IF ctype # <<>> THEN ctype ELSE text_plain

\* The result holds the upstream request, the injected response object the
\* cache headers and status are written to, and the Response object returned.
_proxy_get(token, path, params, up) ==
    LET qp    == _merge_query_params(token, params)
        norm  == Normalize(path)
        url   == BUTTER_V2 \o <<"/">> \o norm
        ctype == HeaderGet(up.headers, "content-type", <<>>)
    IN  [sent |-> [url |-> url, params |-> qp],
         injected |-> [set |-> TRUE,
                       headers |-> _copy_cache_headers(up.headers, EmptyHeaders),
                       status_code |-> up.status_code],
         reply |-> IF IsJson(ctype)
                   THEN Response([type |-> "bytes", data |-> up.content],
                                 application_json, up.status_code)
                   ELSE Response([type |-> "str", data |-> UpstreamText(up)],
                                 MediaTypeOrPlain(ctype), up.status_code)]

(* ------------------------------ /v2 routes ----------------------------- *)

\* a handler's result when it calls no upstream and is given no response object
Local(response) == [sent |-> NoSent, injected |-> NoInjected, reply |-> response]

list_posts(token, req, up) == _proxy_get(token, posts, req.query, up)

get_post(token, req, up) ==
    _proxy_get(token, posts \o <<"/">> \o req.slug, req.query, up)

get_pages_by_type(token, req, up) ==
    _proxy_get(token, pages \o <<"/">> \o req.page_type, req.query, up)

ItemsWithSlugFirst(items, slug) == <<<<key_slug, slug>>>> \o items

\* items.append(("slug", slug))
ItemsWithSlug(items, slug) == Append(items, <<key_slug, slug>>)

get_page_by_type_and_slug(token, req, up) ==
    _proxy_get(token, pages \o <<"/">> \o req.page_type,
               ItemsWithSlug(req.query, req.slug), up)

(* --------------------------------- JSON -------------------------------- *)

JNull == [t |-> "null"]
JInt(n) == [t |-> "int", n |-> n]
JStr(s) == [t |-> "str", s |-> s]
JList(s) == [t |-> "list", items |-> s]
JObj(f) == [t |-> "obj", fields |-> f]

\* r.json() raised
JInvalid == [t |-> "invalid"]

NoKeys == [k \in {} |-> JNull]

\* bool(x)
Truthy(j) ==
    CASE j.t = "null" -> FALSE
      [] j.t = "int" -> j.n # 0
      [] j.t = "str" -> j.s # <<>>
      [] j.t = "list" -> j.items # <<>>
      [] j.t = "obj" -> DOMAIN j.fields # {}

\* d.get(key, default) on a dict
Get(d, key, default) == IF key \in DOMAIN d.fields THEN d.fields[key] ELSE default

\* x or default
Or(j, default) == IF Truthy(j) THEN j ELSE default

(* ------------------------------ HTML routes ---------------------------- *)

PlainTextResponse(content, status_code) ==
    [cls |-> "PlainTextResponse", status_code |-> status_code, media_type |-> text_plain,
     headers |-> ("content-type" :> ContentTypeHeader(text_plain)),
     content |-> content, body |-> content]

HTMLResponse(content) ==
    [cls |-> "HTMLResponse", status_code |-> 200, media_type |-> text_html,
     headers |-> ("content-type" :> ContentTypeHeader(text_html)),
     content |-> content, body |-> content]

\* the framework's answer when a handler raises
InternalServerError == PlainTextResponse(<<"Internal Server Error">>, 500)

\* the page template: the title and the body are its only holes
_html_shell(title, body) == [title |-> title, body |-> body]

\* return {"status": "ok"}
health == Local([cls |-> "JSONResponse", status_code |-> 200, media_type |-> application_json,
                 headers |-> ("content-type" :> application_json),
                 content |-> ("status" :> "ok"), body |-> ("status" :> "ok")])

root == Local(HTMLResponse(_html_shell(<<"Nannyfy - Cuidado Infantil de Confianza">>, <<"hero">>)))

\* request.query_params.get(key, default): the last value given for the key
RECURSIVE QueryGet(_, _, _)
QueryGet(query, key, default) ==
    IF query = <<>> THEN default
    ELSE IF query[Len(query)][1] = key THEN query[Len(query)][2]
    ELSE QueryGet(SubSeq(query, 1, Len(query) - 1), key, default)

\* the upstream response object r: it carries the request that was sent
UpstreamResponse(request_sent, up) ==
    [status_code |-> up.status_code, json |-> up.json, request |-> request_sent]

PostsErrorTextWithRequest(r) == <<"Error al cargar posts (", r.request.params, ")">>

\* f"Error al cargar posts ({r.status_code})"
PostsErrorText(r) == <<"Error al cargar posts (", r.status_code, ")">>

\* f"Post no encontrado ({r.status_code})"
PostErrorText(r) == <<"Post no encontrado (", r.status_code, ")">>

\* for p in posts: a list gives its elements, nothing else here is iterable
\* without the loop body raising
Iterable(j) == j.t = "list" \/ (j.t \in {"obj", "str"} /\ ~Truthy(j))

Elements(j) == IF j.t = "list" THEN j.items ELSE <<>>

\* the characters or items of a str or list
Sliceable(j) == IF j.t = "str" THEN j.s ELSE j.items

\* (x or "")[:10]
Published(j) == Take(Sliceable(Or(j, JStr(<<>>))), 10)

\* one card of the listing
Card(p) ==
    [slug |-> Get(p, "slug", JStr(<<>>)),
     title |-> Get(p, "title", JStr(<<"Sin titulo">>)),
     summary |-> Or(Get(p, "summary", JNull), JStr(<<>>)),
     published |-> Published(Get(p, "published", JNull))]

\* what the loop over posts needs of each element
CardRenders(p) ==
    /\ p.t = "obj"
    /\ Or(Get(p, "published", JNull), JStr(<<>>)).t \in {"str", "list"}

CurrOf(page) == IF ParseInt(page).ok THEN ParseInt(page).value ELSE 1

PrevQuerySwapped(curr, page_size, previous_page, next_page) ==
    IF Truthy(next_page) THEN <<"?page=", curr - 1, "&page_size=", page_size>> ELSE <<>>

\* f"?page={curr - 1}&page_size={page_size}" if previous_page else ""
PrevQuery(curr, page_size, previous_page, next_page) ==
    IF Truthy(previous_page) THEN <<"?page=", curr - 1, "&page_size=", page_size>> ELSE <<>>

\* f"?page={curr + 1}&page_size={page_size}" if next_page else ""
NextQuery(curr, page_size, previous_page, next_page) ==
    IF Truthy(next_page) THEN <<"?page=", curr + 1, "&page_size=", page_size>> ELSE <<>>

\* the <nav class="pager"> block
Pager(curr, page_size, previous_page, next_page) ==
    [prev |-> [disabled |-> ~Truthy(previous_page),
               href |-> <<"/blog">> \o PrevQuery(curr, page_size, previous_page, next_page)],
     curr |-> curr,
     next |-> [disabled |-> ~Truthy(next_page),
               href |-> <<"/blog">> \o NextQuery(curr, page_size, previous_page, next_page)]]

blog_index(token, req, up) ==
    LET page      == QueryGet(req.query, key_page, <<"1">>)
        page_size == QueryGet(req.query, key_page_size, <<"9">>)
        params    == << <<key_page, page>>, <<key_page_size, page_size>> >>
        qp        == _merge_query_params(token, params)
        out       == [url |-> BUTTER_V2 \o <<"/">> \o posts \o <<"/">>, params |-> qp]
        r         == UpstreamResponse(out, up)
        data      == r.json
        list      == Get(data, "data", JList(<<>>))
        meta      == Or(Get(data, "meta", JObj(NoKeys)), JObj(NoKeys))
        next_page == Get(meta, "next_page", JNull)
        previous_page == Get(meta, "previous_page", JNull)
        cards     == [i \in 1..Len(Elements(list)) |-> Card(Elements(list)[i])]
        renders   == /\ data.t = "obj"
                     /\ meta.t = "obj"
                     /\ Iterable(list)
                     /\ \A i \in 1..Len(Elements(list)) : CardRenders(Elements(list)[i])
        body      == [grid |-> cards,
                      pager |-> Pager(CurrOf(page), page_size, previous_page, next_page)]
    IN  [sent |-> out,
         injected |-> NoInjected,
         reply |-> IF r.status_code # 200
                   THEN PlainTextResponse(PostsErrorText(r), r.status_code)
                   ELSE IF ~renders THEN InternalServerError
                   ELSE HTMLResponse(_html_shell(<<"Nannyfy - Blog de Crianza y Cuidado Infantil">>, body))]

blog_post(token, req, up) ==
    LET qp      == _merge_query_params(token, <<>>)
        out     == [url |-> BUTTER_V2 \o <<"/">> \o posts \o <<"/">> \o req.slug \o <<"/">>,
                    params |-> qp]
        r       == UpstreamResponse(out, up)
        doc     == r.json
        post    == Get(doc, "data", JObj(NoKeys))
        title   == Get(post, "title", JStr(<<"Sin titulo">>))
        renders == /\ doc.t = "obj"
                   /\ post.t = "obj"
                   /\ Or(Get(post, "published", JNull), JStr(<<>>)).t \in {"str", "list"}
        html    == [title |-> title,
                    published |-> Published(Get(post, "published", JNull)),
                    content |-> Or(Get(post, "body", JNull), JStr(<<"<p>Sin contenido.</p>">>))]
    IN  [sent |-> out,
         injected |-> NoInjected,
         reply |-> IF r.status_code # 200
                   THEN PlainTextResponse(PostErrorText(r), r.status_code)
                   ELSE IF ~renders THEN InternalServerError
                   ELSE HTMLResponse(_html_shell(<<"Nannyfy - ", title>>, html))]

(* ------------------------------- inputs -------------------------------- *)

\* query items sent to /blog
BlogQueryItems ==
    { <<key_page, <<"2">> >>, <<key_page, <<"0", "7">> >>, <<key_page, <<"x">> >>,
      <<key_page, <<"-", "1">> >>, <<key_page_size, <<"5">> >>, <<auth_token, <<"x">> >> }

BlogQueries == BoundedSeq(BlogQueryItems, MaxParams)

SamplePost ==
    JObj("slug" :> JStr(<<"h","i">>) @@ "title" :> JStr(<<"T">>) @@ "summary" :> JNull
         @@ "published" :> JStr(PUBLISHED) @@ "body" :> JStr(<<"<p>x</p>">>))

MetaOptions ==
    { NoKeys,
      ("meta" :> JNull),
      ("meta" :> JObj(NoKeys)),
      ("meta" :> JObj("next_page" :> JInt(2) @@ "previous_page" :> JNull)),
      ("meta" :> JObj("next_page" :> JNull @@ "previous_page" :> JInt(1))),
      ("meta" :> JObj("next_page" :> JInt(3) @@ "previous_page" :> JInt(1))),
      ("meta" :> JObj("next_page" :> JInt(0) @@ "previous_page" :> JInt(1))),
      ("meta" :> JInt(5)) }

DataOptions ==
    { NoKeys,
      ("data" :> JList(<<>>)),
      ("data" :> JList(<<SamplePost>>)),
      ("data" :> JNull) }

\* what r.json() gives for the listing
IndexDocs == {JInvalid, JList(<<>>)} \cup {JObj(m @@ d) : m \in MetaOptions, d \in DataOptions}

\* what r.json() gives for one post
PostDocs ==
    { JInvalid, JList(<<>>), JObj(NoKeys), JObj("data" :> JNull), JObj("data" :> SamplePost),
      JObj("data" :> JObj("published" :> JInt(2024))) }

IndexUpstream == [status_code : Statuses, json : IndexDocs]

PostUpstream == [status_code : Statuses, json : PostDocs]

(* ------------------------------- actions ------------------------------- *)

\* no request is being handled
Idle == request = NoRequest

Req(route, page_type, slug, query) ==
    [route |-> route, page_type |-> page_type, slug |-> slug, query |-> query]

\* @app.get(...): the handler each route runs
Endpoint(token, req, up) ==
    CASE req.route = "/health" -> health
      [] req.route = "/" -> root
      [] req.route = "/v2/posts" -> list_posts(token, req, up)
      [] req.route = "/v2/posts/{slug}" -> get_post(token, req, up)
      [] req.route = "/v2/pages/{page_type}" -> get_pages_by_type(token, req, up)
      [] req.route = "/v2/pages/{page_type}/{slug}" -> get_page_by_type_and_slug(token, req, up)
      [] req.route = "/blog" -> blog_index(token, req, up)
      [] req.route = "/blog/{slug}" -> blog_post(token, req, up)

\* One request handled from its arrival to the handler's return.  A Response
\* object the handler returns is the response sent; the injected response
\* object is used only when the handler returns something else.
Handle(req, up) ==
    LET result == Endpoint(BUTTER_API_TOKEN, req, up)
    IN  /\ request' = req
        /\ upstream' = up
        /\ sent' = result.sent
        /\ injected' = result.injected
        /\ reply' = result.reply
        /\ UNCHANGED BUTTER_API_TOKEN

GetHealth == Idle /\ Handle(Req("/health", <<>>, <<>>, <<>>), NoUpstream)

GetRoot == Idle /\ Handle(Req("/", <<>>, <<>>, <<>>), NoUpstream)

GetPosts ==
    /\ Idle
    /\ \E q \in ProxyQueries, up \in ProxyUpstream :
        Handle(Req("/v2/posts", <<>>, <<>>, q), up)

GetPost ==
    /\ Idle
    /\ \E slug \in Slugs, q \in ProxyQueries, up \in ProxyUpstream :
        Handle(Req("/v2/posts/{slug}", <<>>, slug, q), up)

GetPagesByType ==
    /\ Idle
    /\ \E page_type \in PageTypes, q \in ProxyQueries, up \in ProxyUpstream :
        Handle(Req("/v2/pages/{page_type}", page_type, <<>>, q), up)

GetPageByTypeAndSlug ==
    /\ Idle
    /\ \E page_type \in PageTypes, slug \in Slugs, q \in ProxyQueries, up \in ProxyUpstream :
        Handle(Req("/v2/pages/{page_type}/{slug}", page_type, slug, q), up)

GetBlog ==
    /\ Idle
    /\ \E q \in BlogQueries, up \in IndexUpstream :
        Handle(Req("/blog", <<>>, <<>>, q), up)

GetBlogPost ==
    /\ Idle
    /\ \E slug \in Slugs, up \in PostUpstream :
        Handle(Req("/blog/{slug}", <<>>, slug, <<>>), up)

\* the response has been sent: nothing of the request is kept
ResponseSent ==
    /\ ~Idle
    /\ request' = NoRequest
    /\ sent' = NoSent
    /\ upstream' = NoUpstream
    /\ injected' = NoInjected
    /\ reply' = NoReply
    /\ UNCHANGED BUTTER_API_TOKEN

Next ==
    \/ GetHealth
    \/ GetRoot
    \/ GetPosts
    \/ GetPost
    \/ GetPagesByType
    \/ GetPageByTypeAndSlug
    \/ GetBlog
    \/ GetBlogPost
    \/ ResponseSent

Spec == Init /\ [][Next]_vars

\* _proxy_get called by itself, with any path
CallProxyGet ==
    /\ Idle
    /\ \E path \in BoundedSeq({"/", "a"}, MaxPath), up \in ProxyUpstream :
        LET result == _proxy_get(BUTTER_API_TOKEN, path, <<>>, up)
        IN  /\ request' = [route |-> "_proxy_get", path |-> path, query |-> <<>>]
            /\ upstream' = up
            /\ sent' = result.sent
            /\ injected' = result.injected
            /\ reply' = result.reply
            /\ UNCHANGED BUTTER_API_TOKEN

NextUnit == Next \/ CallProxyGet

SpecUnit == Init /\ [][NextUnit]_vars

(* =============================== claims ================================ *)

ProxyRoutes ==
    {"/v2/posts", "/v2/posts/{slug}", "/v2/pages/{page_type}", "/v2/pages/{page_type}/{slug}"}

HtmlRoutes == {"/blog", "/blog/{slug}"}

UpstreamRoutes == ProxyRoutes \cup HtmlRoutes

\* the values the list L gives for key k, in the order of L
RECURSIVE ValuesFor(_, _)
ValuesFor(L, k) ==
    IF L = <<>> THEN <<>>
    ELSE (IF Head(L)[1] = k THEN <<Head(L)[2]>> ELSE <<>>) \o ValuesFor(Tail(L), k)

KeysOf(L) == {L[i][1] : i \in 1..Len(L)}

\* the (key, value) pairs of a merged dict, entry by entry
RECURSIVE Flatten(_)
Flatten(params) ==
    IF params = <<>> THEN <<>>
    ELSE [i \in 1..Len(Head(params).values) |-> <<Head(params).key, Head(params).values[i]>>]
         \o Flatten(Tail(params))

\* C1: on every upstream-calling route the query sent upstream has the key
\* auth_token exactly once, its only value is the server-held token, and no
\* other key equal to auth_token up to letter case is forwarded.
C1_TokenInjectedOnce ==
    request.route \in UpstreamRoutes =>
        \E i \in 1..Len(sent.params) :
            /\ sent.params[i].key = auth_token
            /\ sent.params[i].values = <<BUTTER_API_TOKEN>>
            /\ \A j \in 1..Len(sent.params) :
                   Lower(sent.params[j].key) = auth_token => j = i

\* a client sent both auth_token and Auth_Token to a proxied route
C1_Witness ==
    /\ request.route \in ProxyRoutes
    /\ \E i, j \in 1..Len(request.query) :
           request.query[i][1] = auth_token /\ request.query[j][1] = key_Auth_Token

\* C2: the response does not depend on the server-held token: the same
\* request with the same upstream response gives the same response under
\* every token.
C2_ReplyIndependentOfToken ==
    ~Idle => \A tok \in Tokens : Endpoint(tok, request, upstream).reply = reply

\* /blog answered an upstream 404 with its error text
C2_Witness ==
    /\ request.route = "/blog"
    /\ reply.cls = "PlainTextResponse"
    /\ upstream.status_code = 404

\* C3: on a proxied GET every cache header of the upstream response is in
\* the response sent to the client with the same value, and no other
\* upstream header is copied.
C3_CacheHeadersReachClient ==
    request.route \in ProxyRoutes =>
        /\ \A h \in UPSTREAM_CACHE_HEADERS \cap DOMAIN upstream.headers :
               h \in DOMAIN reply.headers /\ reply.headers[h] = upstream.headers[h]
        /\ DOMAIN reply.headers \subseteq UPSTREAM_CACHE_HEADERS \cup {"content-type"}

\* C4: on a proxied GET the response has the upstream's status code and a
\* body equal to the upstream body.
C4_StatusAndBodyPassThrough ==
    request.route \in ProxyRoutes =>
        /\ reply.status_code = upstream.status_code
        /\ reply.body = upstream.content

\* the sample content types that contain application/json up to letter case
JsonContentTypes == {ct_json, ct_json_mixed_case}

ResourcePath(req) ==
    CASE req.route = "_proxy_get" -> req.path
      [] req.route \in {"/v2/posts", "/blog"} -> posts
      [] req.route \in {"/v2/posts/{slug}", "/blog/{slug}"} -> posts \o <<"/">> \o req.slug
      [] OTHER -> pages \o <<"/">> \o req.page_type

\* the positions of path that hold no slash
NonSlash(path) == {i \in 1..Len(path) : path[i] # "/"}

\* path without its leading and trailing slashes: from its first to its
\* last character that is no slash
Stripped(path) ==
    LET S == NonSlash(path)
    IN  IF S = {} THEN <<>>
        ELSE SubSeq(path, CHOOSE i \in S : \A j \in S : i <= j,
                          CHOOSE i \in S : \A j \in S : j <= i)

\* the part of an upstream URL after BUTTER_V2 + "/"
AfterJoin(url) == SubSeq(url, Len(BUTTER_V2) + 2, Len(url))

UrlHasForm ==
    /\ sent.url = BUTTER_V2 \o <<"/">> \o Stripped(ResourcePath(request)) \o <<"/">>
    /\ Normalize(AfterJoin(sent.url)) = AfterJoin(sent.url)

UrlSlashesSingle ==
    /\ sent.url[Len(sent.url)] = "/"
    /\ sent.url[Len(sent.url) - 1] # "/"
    /\ Head(AfterJoin(sent.url)) # "/"

\* C6 as stated: every upstream URL is BUTTER_V2 + "/" + p + "/", p the
\* resource path without leading and trailing slashes, so it ends in exactly
\* one slash with no doubled slash at the join, and normalising is
\* idempotent; for every path given to _proxy_get and for the /blog URLs.
C6_Original ==
    request.route \in UpstreamRoutes \cup {"_proxy_get"} =>
        UrlHasForm /\ UrlSlashesSingle

\* C6 amended: the form and idempotence hold for every path; the URL ends
\* in exactly one slash, with no doubled slash at the join, when p is not
\* empty, as in every path a route builds.
C6_UrlNormalized ==
    request.route \in UpstreamRoutes \cup {"_proxy_get"} =>
        /\ UrlHasForm
        /\ Stripped(ResourcePath(request)) # <<>> => UrlSlashesSingle
        /\ request.route \in UpstreamRoutes => Stripped(ResourcePath(request)) # <<>>

\* _proxy_get was given "/a/": slashes were stripped on both sides
C6_Witness ==
    /\ request.route = "_proxy_get"
    /\ request.path = <<"/", "a", "/">>
    /\ sent.url = BUTTER_V2 \o <<"/", "a", "/">>

\* the routes that hand the client's query list to _merge_query_params as it is
MergeRoutes == {"/v2/posts", "/v2/posts/{slug}", "/v2/pages/{page_type}"}

\* C7: the merge keeps, for every key that is not auth_token up to letter
\* case, exactly the list of its values in input order, duplicates kept,
\* keys distinct by exact spelling; it adds only auth_token; merging its own
\* flattened output changes nothing.
C7_MergeKeepsEverythingElse ==
    request.route \in MergeRoutes =>
        LET L == request.query
            P == sent.params
        IN  /\ \A k \in KeysOf(L) :
                   Lower(k) # auth_token =>
                       \E i \in 1..Len(P) : P[i].key = k /\ P[i].values = ValuesFor(L, k)
            /\ \A i \in 1..Len(P) :
                   P[i].key = auth_token \/ (P[i].key \in KeysOf(L) /\ Lower(P[i].key) # auth_token)
            /\ \A i, j \in 1..Len(P) : P[i].key = P[j].key => i = j
            /\ _merge_query_params(BUTTER_API_TOKEN, Flatten(P)) = P

\* the client repeated a key: slug=b&slug=a
C7_Witness ==
    /\ request.route \in MergeRoutes
    /\ request.query = << <<key_slug, <<"b">> >>, <<key_slug, <<"a">> >> >>
    /\ \E i \in 1..Len(sent.params) : sent.params[i].values = << <<"b">>, <<"a">> >>

\* the integer the sample page values stand for, 1 for those that are none
IntOfPage(page) ==
    CASE page = <<"1">> -> 1
      [] page = <<"2">> -> 2
      [] page = <<"0", "7">> -> 7
      [] page = <<"-", "1">> -> 0 - 1
      [] OTHER -> 1

\* whether meta.<key> of the listing the upstream sent is truthy
MetaTruthy(key) ==
    /\ "meta" \in DOMAIN upstream.json.fields
    /\ upstream.json.fields["meta"].t = "obj"
    /\ key \in DOMAIN upstream.json.fields["meta"].fields
    /\ Truthy(upstream.json.fields["meta"].fields[key])

PageLink(page, page_size) == <<"/blog", "?page=", page, "&page_size=", page_size>>

\* C8: in a rendered /blog listing, Anterior targets
\* /blog?page=<curr-1>&page_size=<page_size> exactly when meta.previous_page
\* is truthy and Siguiente targets /blog?page=<curr+1>&page_size=<page_size>
\* exactly when meta.next_page is truthy; otherwise the link is disabled and
\* targets /blog.  curr is the integer value of the client's page (default
\* 1, and 1 when it is no integer); page_size is the client's, default 9.
C8_PagerLinks ==
    (request.route = "/blog" /\ upstream.status_code = 200 /\ reply.cls = "HTMLResponse") =>
        LET curr      == IntOfPage(QueryGet(request.query, key_page, <<"1">>))
            page_size == QueryGet(request.query, key_page_size, <<"9">>)
            pager     == reply.content.body.pager
        IN  /\ pager.curr = curr
            /\ pager.prev.disabled = ~MetaTruthy("previous_page")
            /\ pager.prev.href = IF MetaTruthy("previous_page")
                                 THEN PageLink(curr - 1, page_size) ELSE <<"/blog">>
            /\ pager.next.disabled = ~MetaTruthy("next_page")
            /\ pager.next.href = IF MetaTruthy("next_page")
                                 THEN PageLink(curr + 1, page_size) ELSE <<"/blog">>

\* page=07&page_size=5 with a previous page and next_page = 0
C8_Witness ==
    /\ request.route = "/blog"
    /\ reply.cls = "HTMLResponse"
    /\ request.query = << <<key_page, <<"0", "7">> >>, <<key_page_size, <<"5">> >> >>
    /\ reply.content.body.pager.prev.href = PageLink(6, <<"5">>)
    /\ reply.content.body.pager.next.disabled

\* C9: /blog and /blog/{slug} answer a plain-text error with the upstream's
\* status code whenever that is not 200, and an HTML page with status 200
\* whenever it is 200; / and /health answer 200 with no upstream request.
C9_HtmlRoutesFollowUpstreamStatus ==
    /\ request.route \in HtmlRoutes =>
           IF upstream.status_code # 200
           THEN reply.cls = "PlainTextResponse" /\ reply.status_code = upstream.status_code
           ELSE reply.cls = "HTMLResponse" /\ reply.status_code = 200
    /\ request.route \in {"/", "/health"} => reply.status_code = 200 /\ sent = NoSent

\* C10: /v2/pages/{page_type}/{slug} asks the upstream for pages/{page_type}/
\* and sends the path slug as the last value of the key slug, after the
\* client's own slug values, with every other client parameter and the token.
C10_SlugAppendedToQuery ==
    request.route = "/v2/pages/{page_type}/{slug}" =>
        LET L == request.query
            P == sent.params
        IN  /\ sent.url = BUTTER_V2 \o <<"/">> \o pages \o <<"/">> \o request.page_type \o <<"/">>
            /\ \E i \in 1..Len(P) :
                   P[i].key = key_slug /\ P[i].values = ValuesFor(L, key_slug) \o <<request.slug>>
            /\ \A k \in KeysOf(L) \ {key_slug} :
                   Lower(k) # auth_token =>
                       \E i \in 1..Len(P) : P[i].key = k /\ P[i].values = ValuesFor(L, k)
            /\ \E i \in 1..Len(P) : P[i].key = auth_token /\ P[i].values = <<BUTTER_API_TOKEN>>

\* the client sent slug=a and Slug=a itself
C10_Witness ==
    /\ request.route = "/v2/pages/{page_type}/{slug}"
    /\ request.query = << <<key_slug, <<"a">> >>, <<key_Slug, <<"a">> >> >>
    /\ \E i \in 1..Len(sent.params) : sent.params[i].values = << <<"a">>, request.slug >>

====
